---- MODULE Spec2Model ----
(***************************************************************************)
(* fast-near: the height-indexed store client (storage-client.js), the     *)
(* view coordinator runContract and the JSON-RPC front (json-rpc.js).      *)
(*                                                                         *)
(* Strings are sequences of one-character tokens; the fixed literals of    *)
(* the source ("data:", "code:", the operation names, ...) are single      *)
(* tokens.  A Buffer is the sequence of its bytes, a string the sequence of *)
(* its characters; an ASCII character is its own byte, and an argument      *)
(* carries a tag saying which of the two it is.                            *)
(***************************************************************************)
EXTENDS Integers, Sequences, FiniteSets, TLC

(* ------------------------------ bounds -------------------------------- *)
InitHeight == 9      \* latest_block_height when the process starts
MaxBlocks == 1       \* blocks the indexer adds during a run
MaxQueries == 3      \* store queries started through the store client
MaxFailures == 1     \* store queries that fail
MaxEvictions == 1    \* cache entries the LRU drops
NClients == 1        \* view calls in progress at a time in the store-client runs
TickMs == 300        \* granularity of the clock
ScanLimit == 20      \* the COUNT a scan is given

(* ------------------------------ strings ------------------------------- *)
Digits == <<"0", "1", "2", "3", "4", "5", "6", "7", "8", "9">>

IsDigit(t) == \E d \in 1..10 : Digits[d] = t

DigitVal(t) == (CHOOSE d \in 1..10 : Digits[d] = t) - 1

RECURSIVE ToDecimal(_)
ToDecimal(n) ==
    IF n < 10 THEN <<Digits[n + 1]>>
    ELSE ToDecimal(n \div 10) \o <<Digits[(n % 10) + 1]>>

NaN == -1

RECURSIVE ParseDigits(_, _)
ParseDigits(s, acc) ==
    IF s = <<>> \/ ~IsDigit(Head(s)) THEN acc
    ELSE ParseDigits(Tail(s), acc * 10 + DigitVal(Head(s)))

\* parseInt: the value of the leading decimal digits, NaN when there are none.
ParseInt(s) == IF s = <<>> \/ ~IsDigit(Head(s)) THEN NaN ELSE ParseDigits(s, 0)

RECURSIVE Join(_, _)
Join(parts, sep) ==
    IF parts = <<>> THEN <<>>
    ELSE IF Len(parts) = 1 THEN parts[1]
    ELSE parts[1] \o sep \o Join(Tail(parts), sep)

Slice(s, n) == IF n >= Len(s) THEN <<>> ELSE SubSeq(s, n + 1, Len(s))

StartsWith(s, p) == Len(p) <= Len(s) /\ SubSeq(s, 1, Len(p)) = p

\* Redis glob matching; "*" is the only pattern character of the alphabet.
RECURSIVE GlobMatch(_, _)
GlobMatch(pat, s) ==
    IF pat = <<>> THEN s = <<>>
    ELSE IF Head(pat) = "*"
         THEN GlobMatch(Tail(pat), s) \/ (s # <<>> /\ GlobMatch(pat, Tail(s)))
         ELSE s # <<>> /\ Head(s) = Head(pat) /\ GlobMatch(Tail(pat), Tail(s))

\* Buffer.from(string): the UTF-8 bytes of a string.  "U+00E9" is the one
\* character of the alphabet outside ASCII; it is one UTF-16 unit and two bytes.
Utf8Char(t) == IF t = "U+00E9" THEN <<"0xC3", "0xA9">> ELSE <<t>>

RECURSIVE Utf8(_)
Utf8(s) == IF s = <<>> THEN <<>> ELSE Utf8Char(Head(s)) \o Utf8(Tail(s))

Null == <<>>         \* null / undefined / an empty reply

Str(v) == [t |-> "str", v |-> v]
Buf(v) == [t |-> "buf", v |-> v]
Num(n) == [t |-> "num", v |-> n]

(* ------------------------------- store -------------------------------- *)
VARIABLES
    redisStr,        \* the store's plain keys: key -> value
    redisZ           \* the store's ordered sets: key -> set of [member, score]

store == <<redisStr, redisZ>>

KeyLatest == <<"latest_block_height">>
KeyCodeSet(c) == <<"code:">> \o Utf8(c)
KeyCode(c, r) == <<"code:">> \o Utf8(c) \o <<":">> \o r
KeyAccountSet(a) == <<"account:">> \o Utf8(a)
KeyAccountData(a, r) == <<"account-data:">> \o Utf8(a) \o <<":">> \o r
KeyDataSet(compKey) == <<"data:">> \o compKey
KeyDataValue(compKey, r) == <<"data-value:">> \o compKey \o <<":">> \o r

\* GET key
Get(str, key) == IF key \in DOMAIN str THEN str[key] ELSE Null

\* ZREVRANGEBYSCORE key max -inf LIMIT 0 1: the reply array.
ZRevRangeByScore(z, key, max) ==
    LET ms == IF key \in DOMAIN z THEN {m \in z[key] : m.score <= max} ELSE {}
    IN  IF ms = {} THEN <<>>
        ELSE <<(CHOOSE m \in ms : \A o \in ms : o.score <= m.score).member>>

\* const [x] = reply
First(reply) == IF reply = <<>> THEN Null ELSE reply[1]

RECURSIVE SetToSeq(_)
SetToSeq(S) ==
    IF S = {} THEN <<>>
    ELSE LET x == CHOOSE y \in S : TRUE IN <<x>> \o SetToSeq(S \ {x})

\* The keyspace in the order SCAN walks it.
KeySpace(str, z) == SetToSeq(DOMAIN str \cup DOMAIN z)

\* SCAN cursor MATCH pattern COUNT count: <<next cursor, keys>>.  The walk
\* looks at `count` keys from the cursor on and returns those that match.
Scan(str, z, cursor, pattern, count) ==
    LET ks == KeySpace(str, z)
        from == ParseInt(cursor)
        to == IF from + count < Len(ks) THEN from + count ELSE Len(ks)
        seen == SubSeq(ks, from + 1, to)
    IN  <<IF to < Len(ks) THEN ToDecimal(to) ELSE <<"0">>,
          SelectSeq(seen, LAMBDA k : GlobMatch(pattern, k))>>

Latest == ParseInt(Get(redisStr, KeyLatest))

(* The indexer (outside the repository): block h's revisions are written    *)
(* under score h, all with the hash of block h, and latest_block_height is  *)
(* set to h once they are in.                                              *)
BlockHash(h) == <<"#">> \o ToDecimal(h)

NextBlock == Latest + 1

ZAdd(z, key, h) ==
    [k \in DOMAIN z \cup {key} |->
        (IF k \in DOMAIN z THEN z[k] ELSE {})
        \cup (IF k = key THEN {[member |-> BlockHash(h), score |-> h]} ELSE {})]

Set(str, key, v) == [k \in DOMAIN str \cup {key} |-> IF k = key THEN v ELSE str[k]]

Written(key) == key \in DOMAIN redisZ /\ \E m \in redisZ[key] : m.score = NextBlock

IndexCode(c, wasm) ==
    /\ NextBlock <= InitHeight + MaxBlocks
    /\ ~Written(KeyCodeSet(c))
    /\ redisZ' = ZAdd(redisZ, KeyCodeSet(c), NextBlock)
    /\ redisStr' = Set(redisStr, KeyCode(c, BlockHash(NextBlock)), wasm)

IndexAccount(a, rec) ==
    /\ NextBlock <= InitHeight + MaxBlocks
    /\ ~Written(KeyAccountSet(a))
    /\ redisZ' = ZAdd(redisZ, KeyAccountSet(a), NextBlock)
    /\ redisStr' = IF rec = Null THEN redisStr
                   ELSE Set(redisStr, KeyAccountData(a, BlockHash(NextBlock)), rec)

IndexData(compKey, v) ==
    /\ NextBlock <= InitHeight + MaxBlocks
    /\ ~Written(KeyDataSet(compKey))
    /\ redisZ' = ZAdd(redisZ, KeyDataSet(compKey), NextBlock)
    /\ redisStr' = Set(redisStr, KeyDataValue(compKey, BlockHash(NextBlock)), v)

IndexHeight ==
    /\ NextBlock <= InitHeight + MaxBlocks
    /\ redisStr' = Set(redisStr, KeyLatest, ToDecimal(NextBlock))
    /\ UNCHANGED redisZ

(* --------------------------- store client ---------------------------- *)
VARIABLES
    redisCache,      \* the LRU of promises: cache key -> [p, maxAge, age]
    promises,        \* the promises withRedis created that are still referenced
    nQueries,        \* store queries started so far through withRedis
    nFailed,         \* store queries that failed so far
    nEvicted,        \* cache entries the LRU dropped so far
    clients          \* the users of the store client

client == <<redisCache, promises, nQueries, nFailed, nEvicted, clients>>

BLOCK_INDEX_CACHE_TIME == 500

OpNames == {"getLatestBlockHeight", "getLatestContractBlockHash", "getContractCode",
            "getLatestAccountBlockHash", "getAccountData",
            "getLatestDataBlockHash", "getData", "scanDataKeys"}

cacheExpiresList == {"getLatestBlockHeight"}

\* prettyBuffer: the printable rendering of a buffer's bytes.
prettyBuffer(b) == b

PrettyArg(a) ==
    IF a.t = "buf" THEN prettyBuffer(a.v)
    ELSE IF a.t = "num" THEN ToDecimal(a.v)
    ELSE a.v

\* A cache key that leaves the height of a revision lookup out.
CacheKey_NoHeight(name, args) ==
    Join(<<<<name>>>> \o [i \in 1..(IF Len(args) = 2 THEN 1 ELSE Len(args)) |->
                             PrettyArg(args[i])], <<"$", "$">>)

CacheKey(name, args) ==
    Join(<<<<name>>>> \o [i \in 1..Len(args) |-> PrettyArg(args[i])], <<"$", "$">>)

\* Buffer.from(arg) of a string or Buffer argument
BufferFrom(a) == IF a.t = "str" THEN Utf8(a.v) ELSE a.v

\* The score Redis reads from a blockHeight argument.
Score(h) == ParseInt(h)

getLatestBlockHeight(str, z, args) == Get(str, KeyLatest)

getLatestContractBlockHash(str, z, args) ==
    First(ZRevRangeByScore(z, KeyCodeSet(args[1].v), Score(args[2].v)))

getContractCode(str, z, args) == Get(str, KeyCode(args[1].v, args[2].v))

getLatestAccountBlockHash(str, z, args) ==
    First(ZRevRangeByScore(z, KeyAccountSet(args[1].v), Score(args[2].v)))

getAccountData(str, z, args) == Get(str, KeyAccountData(args[1].v, args[2].v))

\* A data revision lookup that asks for the newest revision whatever the height.
getLatestDataBlockHash_NoLimit(str, z, args) ==
    First(ZRevRangeByScore(z, KeyDataSet(BufferFrom(args[1])), InitHeight + MaxBlocks + 1))

getLatestDataBlockHash(str, z, args) ==
    First(ZRevRangeByScore(z, KeyDataSet(BufferFrom(args[1])), Score(args[2].v)))

getData(str, z, args) == Get(str, KeyDataValue(BufferFrom(args[1]), args[2].v))

\* scanDataKeys' MATCH argument
MatchPattern(contractId, keyPattern) ==
    Utf8(<<"data:">> \o contractId \o <<":">> \o keyPattern)

\* fn(redisClient)(...args) of every operation that is one store query.
Fn(op, str, z, args) ==
    CASE op = "getLatestBlockHeight" -> getLatestBlockHeight(str, z, args)
      [] op = "getLatestContractBlockHash" -> getLatestContractBlockHash(str, z, args)
      [] op = "getContractCode" -> getContractCode(str, z, args)
      [] op = "getLatestAccountBlockHash" -> getLatestAccountBlockHash(str, z, args)
      [] op = "getAccountData" -> getAccountData(str, z, args)
      [] op = "getLatestDataBlockHash" -> getLatestDataBlockHash(str, z, args)
      [] op = "getData" -> getData(str, z, args)

\* An entry that outlives its maxAge: stale only after twice that time.
Stale_Twice(e) == e.maxAge > 0 /\ e.age > 2 * e.maxAge

\* lru-cache: an entry with a maxAge is stale once it is older than it.
Stale(e) == e.maxAge > 0 /\ e.age > e.maxAge

\* A cache that is never hit.
Cached_Never(m, key) == FALSE

\* redisCache.get(key) finds an entry that is not stale.
Cached(m, key) == key \in DOMAIN m /\ ~Stale(m[key])

Put(m, key, e) == [k \in DOMAIN m \cup {key} |-> IF k = key THEN e ELSE m[k]]

Drop(m, key) == [k \in DOMAIN m \ {key} |-> m[k]]

\* Promises are named by numbers; a promise nothing refers to any more (no
\* cache entry, no awaiting caller) is forgotten.
NewId(ps) == CHOOSE i \in 1..(Cardinality(DOMAIN ps) + 1) : i \notin DOMAIN ps

Referenced(m, cl, q) ==
    \/ \E k \in DOMAIN m : m[k].p = q
    \/ \E c \in DOMAIN cl : cl[c].p = q

Collect(m, ps, cl) == [p \in {q \in DOMAIN ps : Referenced(m, cl, q)} |-> ps[p]]

NewPromise(op, args) ==
    [op |-> op, args |-> args, st |-> "pending", val |-> Null, keys |-> <<>>,
     next |-> Null, inRange |-> TRUE]

\* withRedis, up to its await: the promise the caller awaits, and the cache
\* and promise table after the call.  inRange records (for the claims only)
\* whether the height argument had been reached by latest_block_height.
WithRedis(m, ps, op, args, inRange) ==
    LET key == CacheKey(op, args) IN
    IF Cached(m, key)
    THEN [cache |-> m, promises |-> ps, p |-> m[key].p]
    ELSE [cache |-> Put(m, key,
                        [p |-> NewId(ps),
                         maxAge |-> IF op \in cacheExpiresList
                                    THEN BLOCK_INDEX_CACHE_TIME ELSE 0,
                         age |-> 0]),
          promises |-> Put(ps, NewId(ps), [NewPromise(op, args) EXCEPT !.inRange = inRange]),
          p |-> NewId(ps)]

Settled(ps, p) == ps[p].st \in {"ok", "err"}

\* One key of scanDataKeys' Promise.all: the two nested lookups go through
\* the exported (memoized) operations.  acc = [cache, promises, data, ok].
ScanOne(acc, contractId, blockHeight, key, str, z) ==
    LET compKey == Slice(key, 1)                     \* 'data:'.length
        storageKey == Slice(compKey, Len(contractId) + 1)
        a1 == <<Buf(compKey), Str(blockHeight)>>
        w1 == WithRedis(acc.cache, acc.promises, "getLatestDataBlockHash", a1, TRUE)
        ps1 == IF w1.promises[w1.p].st = "pending"
               THEN [w1.promises EXCEPT ![w1.p].st = "ok",
                        ![w1.p].val = getLatestDataBlockHash(str, z, a1)]
               ELSE w1.promises
        blockHash == ps1[w1.p].val
        a2 == <<Buf(compKey), Buf(blockHash)>>
        w2 == WithRedis(w1.cache, ps1, "getData", a2, TRUE)
        ps2 == IF w2.promises[w2.p].st = "pending"
               THEN [w2.promises EXCEPT ![w2.p].st = "ok",
                        ![w2.p].val = getData(str, z, a2)]
               ELSE w2.promises
    IN  IF ps1[w1.p].st = "err"
        THEN [cache |-> w1.cache, promises |-> ps1, data |-> acc.data, ok |-> FALSE]
        ELSE IF blockHash = Null
        THEN [cache |-> w1.cache, promises |-> ps1,
              data |-> Append(acc.data, <<storageKey, Null>>), ok |-> acc.ok]
        ELSE [cache |-> w2.cache, promises |-> ps2,
              data |-> Append(acc.data, <<storageKey, ps2[w2.p].val>>),
              ok |-> acc.ok /\ ps2[w2.p].st = "ok"]

RECURSIVE ScanAll(_, _, _, _, _, _)
ScanAll(acc, contractId, blockHeight, keys, str, z) ==
    IF keys = <<>> THEN acc
    ELSE ScanAll(ScanOne(acc, contractId, blockHeight, Head(keys), str, z),
                 contractId, blockHeight, Tail(keys), str, z)

\* The nested lookups of a scan that are in the cache and not settled yet.
NestedPending(m, ps, blockHeight, keys) ==
    \E i \in 1..Len(keys) :
        LET k1 == CacheKey("getLatestDataBlockHash",
                           <<Buf(Slice(keys[i], 1)), Str(blockHeight)>>)
        IN  \/ Cached(m, k1) /\ ~Settled(ps, m[k1].p)
            \/ /\ Cached(m, k1) /\ ps[m[k1].p].st = "ok"
               /\ LET k2 == CacheKey("getData", <<Buf(Slice(keys[i], 1)),
                                                  Buf(ps[m[k1].p].val)>>)
                  IN  Cached(m, k2) /\ ~Settled(ps, m[k2].p)

\* Caller c enters an exported operation and reaches its await.
Issue(c, op, args, inRange) ==
    LET w == WithRedis(redisCache, promises, op, args, inRange) IN
    /\ Cached(redisCache, CacheKey(op, args)) \/ nQueries < MaxQueries
    /\ nQueries' = IF Cached(redisCache, CacheKey(op, args)) THEN nQueries ELSE nQueries + 1
    /\ redisCache' = w.cache
    /\ clients' = [clients EXCEPT ![c].pc = "await", ![c].p = w.p,
                                  ![c].op = op, ![c].args = args]
    /\ promises' = Collect(redisCache', w.promises, clients')
    /\ UNCHANGED <<store, nFailed, nEvicted>>

\* A user of the store client calls one exported operation (to the await).
Call(c, op, args, inRange) ==
    /\ clients[c].pc = "idle"
    /\ Issue(c, op, args, inRange)

\* The store answers a single-query operation, or the query fails.
Reply(p, fails) ==
    /\ p \in DOMAIN promises
    /\ promises[p].st = "pending"
    /\ promises[p].op # "scanDataKeys"
    /\ IF fails
       THEN /\ nFailed < MaxFailures
            /\ nFailed' = nFailed + 1
            /\ promises' = [promises EXCEPT ![p].st = "err"]
       ELSE /\ nFailed' = nFailed
            /\ promises' = [promises EXCEPT ![p].st = "ok",
                   ![p].val = Fn(promises[p].op, redisStr, redisZ, promises[p].args)]
    /\ UNCHANGED <<store, redisCache, nQueries, nEvicted, clients>>

\* scanDataKeys, line 91: the SCAN is answered (or fails).
ScanReply(p, fails) ==
    /\ p \in DOMAIN promises
    /\ promises[p].st = "pending"
    /\ promises[p].op = "scanDataKeys"
    /\ LET a == promises[p].args
           r == Scan(redisStr, redisZ, a[4].v, MatchPattern(a[1].v, a[3].v), a[5].v)
       IN  IF fails
           THEN /\ nFailed < MaxFailures
                /\ nFailed' = nFailed + 1
                /\ promises' = [promises EXCEPT ![p].st = "err"]
           ELSE /\ nFailed' = nFailed
                /\ promises' = [promises EXCEPT ![p].st = "scanned",
                                   ![p].next = r[1], ![p].keys = r[2]]
    /\ UNCHANGED <<store, redisCache, nQueries, nEvicted, clients>>

\* scanDataKeys, lines 92-104: the values of the scanned keys.
ScanValues(p) ==
    /\ p \in DOMAIN promises
    /\ promises[p].st = "scanned"
    /\ ~NestedPending(redisCache, promises, promises[p].args[2].v, promises[p].keys)
    /\ LET a == promises[p].args
           r == ScanAll([cache |-> redisCache, promises |-> promises,
                         data |-> <<>>, ok |-> TRUE],
                        a[1].v, a[2].v, promises[p].keys, redisStr, redisZ)
       IN  /\ redisCache' = r.cache
           /\ promises' = Collect(redisCache', [r.promises EXCEPT
                  ![p].st = IF r.ok THEN "ok" ELSE "err",
                  ![p].val = IF r.ok THEN [iterator |-> promises[p].next, data |-> r.data]
                             ELSE Null], clients)
    /\ UNCHANGED <<store, nQueries, nFailed, nEvicted, clients>>

\* The awaited promise has settled: withRedis returns (or throws) to its caller.
Return(c) ==
    LET pr == promises[clients[c].p] IN
    /\ clients[c].pc = "await"
    /\ Settled(promises, clients[c].p)
    /\ clients' = [clients EXCEPT
          ![c].pc = "idle",
          ![c].p = 0,
          ![c].op = Null,
          ![c].args = <<>>,
          ![c].H = IF pr.op = "getLatestBlockHeight" /\ pr.st = "ok" THEN pr.val ELSE @]
    /\ promises' = Collect(redisCache, promises, clients')
    /\ UNCHANGED <<store, redisCache, nQueries, nFailed, nEvicted>>

\* Time passes: the entries that expire grow older (until they are stale).
Tick ==
    /\ \E k \in DOMAIN redisCache : redisCache[k].maxAge > 0 /\ ~Stale(redisCache[k])
    /\ redisCache' = [k \in DOMAIN redisCache |->
          IF redisCache[k].maxAge > 0 /\ ~Stale(redisCache[k])
          THEN [redisCache[k] EXCEPT !.age = @ + TickMs]
          ELSE redisCache[k]]
    /\ UNCHANGED <<store, promises, nQueries, nFailed, nEvicted, clients>>

\* The LRU (max 1000) drops an entry that lookups outside the model pushed out.
Evict(k) ==
    /\ k \in DOMAIN redisCache
    /\ nEvicted < MaxEvictions
    /\ nEvicted' = nEvicted + 1
    /\ redisCache' = Drop(redisCache, k)
    /\ promises' = Collect(redisCache', promises, clients)
    /\ UNCHANGED <<store, nQueries, nFailed, clients>>

(* ----------------------- users of the store client -------------------- *)
Contracts == {<<"a">>}
StorageKeys == {<<"k">>, <<"m">>}
NewKeys == {<<"m">>}                    \* the storage keys blocks add
Patterns == {<<"*">>}
Heights == InitHeight..(InitHeight + MaxBlocks)

CompKey(c, k) == Utf8(c) \o <<":">> \o k

\* The revisions of an ordered set a call pinned at h can have been given.
Members(key, h) ==
    IF key \in DOMAIN redisZ
    THEN {m.member : m \in {x \in redisZ[key] : x.score <= Score(h)}}
    ELSE {}

\* What a view call pinned at h asks the store client.
ViewCalls(h) ==
    {<<"getLatestContractBlockHash", <<Str(c), Str(h)>>>> : c \in Contracts}
    \cup UNION {{<<"getContractCode", <<Str(c), Buf(r)>>>> :
                    r \in Members(KeyCodeSet(c), h)} : c \in Contracts}
    \cup {<<"getLatestDataBlockHash", <<Buf(CompKey(ck[1], ck[2])), Str(h)>>>> :
                    ck \in Contracts \X NewKeys}
    \cup UNION {{<<"getData", <<Buf(CompKey(ck[1], ck[2])), Buf(r)>>>> :
                    r \in Members(KeyDataSet(CompKey(ck[1], ck[2])), h)} :
                    ck \in Contracts \X NewKeys}
    \cup {<<"scanDataKeys", <<Str(cp[1]), Str(h), Str(cp[2]), Str(<<"0">>), Num(ScanLimit)>>>> :
                    cp \in Contracts \X Patterns}

\* A call starts: it pins the latest height.
Pin(c) ==
    /\ IF c = 1 THEN TRUE ELSE clients[c - 1].H # Null   \* callers are alike: 1 starts first
    /\ Call(c, "getLatestBlockHeight", <<>>, TRUE)

\* A call looks something up at its pinned height.
Lookup(c) ==
    /\ clients[c].H # Null
    /\ \E call \in ViewCalls(clients[c].H) : Call(c, call[1], call[2], TRUE)

\* The revision lookups at height h.
RevisionCalls(h) ==
    {<<"getLatestContractBlockHash", <<Str(c), Str(h)>>>> : c \in Contracts}
    \cup {<<"getLatestAccountBlockHash", <<Str(c), Str(h)>>>> : c \in Contracts}
    \cup {<<"getLatestDataBlockHash", <<Buf(CompKey(ck[1], ck[2])), Str(h)>>>> :
                    ck \in Contracts \X NewKeys}

\* A revision lookup with a height of the caller's choosing.
Direct(c) ==
    \E h \in Heights : \E call \in RevisionCalls(ToDecimal(h)) :
        Call(c, call[1], call[2], h <= Latest)

ScanStep == 4        \* the COUNT of a scan that goes through the keyspace in steps

\* Contract ids as callers can pass them: plain, outside ASCII, with a glob
\* character, with the separator of the cache keys.
PlainId == <<"a">>
WideId == <<"U+00E9">>
GlobId == <<"a", "*">>
DollarId == <<"a", "$", "$">> \o ToDecimal(InitHeight)

ScanContracts == {PlainId, WideId, GlobId, DollarId}

DollarPattern == ToDecimal(InitHeight) \o <<"$", "$", "*">>

\* The scans a guest of contract c pinned at h asks for.
ScanCalls(h) ==
    {<<Str(c), Str(h), Str(<<"*">>), Str(<<"0">>), Num(ScanLimit)>> : c \in ScanContracts}
    \cup {<<Str(PlainId), Str(h), Str(DollarPattern), Str(<<"0">>), Num(ScanLimit)>>,
          <<Str(PlainId), Str(h), Str(<<"*">>), Str(<<"0">>), Num(ScanStep)>>,
          <<Str(PlainId), Str(h), Str(<<"*">>), Str(ToDecimal(ScanStep)), Num(ScanStep)>>}

\* A guest scans at a height the store has reached.
ScanCall(c) ==
    \E h \in InitHeight..Latest : \E args \in ScanCalls(ToDecimal(h)) :
        Call(c, "scanDataKeys", args, TRUE)

NCallers == 2        \* callers of the store client at a time in the overlap runs

\* The lookups overlapping callers make: the latest height and a code revision.
FlightCalls ==
    {<<"getLatestBlockHeight", <<>>>>}
    \cup {<<"getLatestContractBlockHash", <<Str(c), Str(ToDecimal(InitHeight))>>>> :
             c \in Contracts}

\* A caller makes one of these lookups, whatever the other callers are doing.
FlightCall(c) == \E call \in FlightCalls : Call(c, call[1], call[2], TRUE)

(* ---------------- the view coordinator and the JSON-RPC front ---------- *)
VARIABLES
    redisClient,     \* runContract's connection: "none", "connecting" or "ready"
    workerPool,      \* runContract's worker pool: its size and which pool it is
    contractCache,   \* cacheKey -> compiled module
    requests,        \* the JSON-RPC requests being handled
    nRequests,       \* requests received so far
    ALWAYS_PROXY     \* FAST_NEAR_ALWAYS_PROXY, read when the module loads

front == <<redisClient, workerPool, contractCache, requests, nRequests, ALWAYS_PROXY>>

\* An Error object: its class name, its code (if any) and its message.
Error(name, code, message) == [name |-> name, code |-> code, message |-> message]

NoError == Error("", "", <<>>)

FastNEARError(code, message) == Error("Error", code, message)

TypeError(message) == Error("TypeError", "", message)

\* error.toString()
toString(e) == <<e.name, ": ">> \o e.message

\* /TypeError.* is not a function/.test(s); "." matches anything but a line end.
IsNotAFunction(s) ==
    \E i \in 1..Len(s), j \in 1..Len(s) :
        /\ i < j
        /\ s[i] = "TypeError"
        /\ s[j] = " is not a function"
        /\ \A k \in (i + 1)..(j - 1) : s[k] # "\n"

\* JSON.stringify of a string: quoted, line ends escaped.
JsonStringify(s) ==
    <<"\"">> \o [i \in 1..Len(s) |-> IF s[i] = "\n" THEN "\\n" ELSE s[i]] \o <<"\"">>

viewCallError(message) == [status |-> 200, kind |-> "viewCallError", error |-> message]

legacyError(message) ==
    [status |-> 200, kind |-> "legacyError", code |-> -32000, data |-> message,
     message |-> <<"Server error">>]

\* ctx.throw(status, message)
Throw(status, message) == [status |-> status, kind |-> "throw", message |-> message]

NoBody == [status |-> 0, kind |-> "none"]

MethodNotFound ==
    <<"wasm execution failed with error: FunctionCallError(MethodResolveError(MethodNotFound))">>

GuestPanic(message) ==
    <<"wasm execution failed with error: FunctionCallError(HostError(GuestPanic { panic_msg: ">>
    \o JsonStringify(message) \o <<"}))">>

CodeDoesNotExist(accountId) ==
    <<"wasm execution failed with error: FunctionCallError(CompilationError(CodeDoesNotExist { account_id: AccountId(\"">>
    \o accountId \o <<"\") }))">>

AccountDoesNotExist(accountId) ==
    <<"account ">> \o accountId \o <<" does not exist while viewing">>

\* handleError up to its await: the request after it.  A notImplemented
\* error leaves the request waiting for the upstream node (proxyJson).
handleError(req, accountId, error) ==
    LET message == toString(error)
        r == [req EXCEPT !.error = error, !.at = req.pc]
    IN  IF IsNotAFunction(message)
        THEN [r EXCEPT !.pc = "done", !.body = viewCallError(MethodNotFound)]
        ELSE CASE error.code = "notImplemented" ->
                    [r EXCEPT !.pc = "fetch", !.forwards = @ + 1]
               [] error.code \in {"panic", "abort"} ->
                    [r EXCEPT !.pc = "done",
                              !.body = viewCallError(GuestPanic(error.message))]
               [] error.code = "codeNotFound" ->
                    [r EXCEPT !.pc = "done",
                              !.body = viewCallError(CodeDoesNotExist(accountId))]
               [] error.code = "accountNotFound" ->
                    [r EXCEPT !.pc = "done",
                              !.body = legacyError(AccountDoesNotExist(accountId))]
               [] OTHER ->
                    [r EXCEPT !.pc = "done", !.body = Throw(400, message)]

\* The bytes of a revision hash ('#' and digits) in hexadecimal.
HexByte(t) == IF t = "#" THEN <<"2", "3">> ELSE <<"3", t>>

RECURSIVE Hex(_)
Hex(s) == IF s = <<>> THEN <<>> ELSE HexByte(Head(s)) \o Hex(Tail(s))

\* runContract's cacheKey
ContractCacheKey(contractId, contractBlockHash) ==
    contractId \o <<":">> \o Hex(contractBlockHash) \o <<"}">>

\* WebAssembly.compile succeeds on a well-formed module.
Compiles(wasmData) == wasmData = <<"good">>

\* A WebAssembly.Module: an object of its own for every compilation, named by
\* the request slot whose call compiled it.
Module(wasmData, r) == [blob |-> wasmData, by |-> r]

NoModule == Module(Null, 0)

\* A job that is given the height the store has now.
Job_Reread(req) ==
    [blockHeight |-> Get(redisStr, KeyLatest), wasmModule |-> req.wasmModule,
     contractId |-> req.accountId]

\* workerPool.runContract(latestBlockHeight, wasmModule, contractId, ...)
Job(req) ==
    [blockHeight |-> req.latestBlockHeight, wasmModule |-> req.wasmModule,
     contractId |-> req.accountId]

NoJob == [blockHeight |-> Null, wasmModule |-> NoModule, contractId |-> Null]

\* A store command of runContract that has not been answered yet.
Command(name, key, max) == [name |-> name, key |-> key, max |-> max]

NoCommand == Command("", <<>>, <<>>)

\* undefined, as a value of a request's field
Undefined == [t |-> "undefined", v |-> <<>>]

\* ctx.request.body: method, the fields of a params object (request_type,
\* account_id, args_base64) and the items of a params array.
RpcBody(method, request_type, account_id, args_base64, items) ==
    [method |-> method, request_type |-> request_type, account_id |-> account_id,
     args_base64 |-> args_base64, items |-> items]

NoRequest == RpcBody("", "", Null, Undefined, <<>>)

IdleRequest ==
    [kind |-> "none", request |-> NoRequest, route |-> "",
     pc |-> "idle", at |-> "idle", accountId |-> Null,
     latestBlockHeight |-> Null, reads |-> 0, command |-> NoCommand,
     contractBlockHash |-> Null, cacheKey |-> Null, wasmData |-> Null,
     wasmModule |-> NoModule, job |-> NoJob, error |-> NoError,
     body |-> NoBody, forwards |-> 0]

MaxRequests == 2     \* requests received during a run
NRequests == 2       \* requests handled at a time

AccountIds == {<<"a">>, <<"b">>, <<"n">>, <<"TypeError", " is not a function">>}

RequestKinds == {"call_function", "view_account", "other"}

GuestMessages == {<<"boom">>, <<"TypeError", ": ", "x", " is not a function">>}

\* What a worker answers a job with: NoError stands for a result.
WorkerOutcomes ==
    {NoError, TypeError(<<"x", " is not a function">>)}
    \cup {FastNEARError(code, m) : code \in {"panic", "abort", "notImplemented"},
                                   m \in GuestMessages}

StoreError == Error("Error", "ECONNREFUSED", <<"connect ECONNREFUSED">>)

CompileError == Error("CompileError", "", <<"WebAssembly.compile(): expected magic word">>)

AccountNotFound(accountId, latestBlockHeight) ==
    FastNEARError("accountNotFound",
        <<"Account not found: ">> \o accountId \o <<" at ">> \o latestBlockHeight
        \o <<" block height">>)

\* borsh's deserialize accepts a well-formed account record.
Deserializes(accountData) == accountData = <<"acct">>

BorshError == Error("BorshError", "", <<"Unexpected end of buffer">>)

\* The cache is given the module before the compilation has settled.
SetContractCache_Early(cache, cacheKey, wasmData, r) ==
    Put(cache, cacheKey, Module(wasmData, r))

\* contractCache[cacheKey] = wasmModule, reached when the compilation succeeded
SetContractCache(cache, cacheKey, wasmData, r) ==
    IF Compiles(wasmData) THEN Put(cache, cacheKey, Module(wasmData, r)) ELSE cache

\* new WorkerPool(size, redisClient); n tells the pools made apart.
WorkerPool(size, n) == [size |-> size, n |-> n]

NoPool == WorkerPool(0, 0)

\* A pool is made by every call.
EnsureWorkerPool_Always(pool) == WorkerPool(10, pool.n + 1)

\* if (!workerPool) workerPool = new WorkerPool(10, redisClient)
EnsureWorkerPool(pool) == IF pool = NoPool THEN WorkerPool(10, 1) ELSE pool

\* runContract, lines 23-45: up to the first await.
RunContract(r, req) ==
    /\ IF redisClient = "none"
       THEN /\ redisClient' = "connecting"
            /\ requests' = [requests EXCEPT ![r] = [req EXCEPT !.pc = "connect"]]
            /\ UNCHANGED workerPool
       ELSE /\ workerPool' = EnsureWorkerPool(workerPool)
            /\ requests' = [requests EXCEPT ![r] = [req EXCEPT
                   !.pc = "height", !.reads = @ + 1,
                   !.command = Command("GET", KeyLatest, <<>>)]]
            /\ UNCHANGED redisClient
    /\ UNCHANGED <<store, client, contractCache>>

\* runContract, lines 35-45: the connection is up.
Connected(r) ==
    /\ requests[r].pc = "connect"
    /\ redisClient' = "ready"
    /\ workerPool' = EnsureWorkerPool(workerPool)
    /\ requests' = [requests EXCEPT ![r].pc = "height", ![r].reads = @ + 1,
                                    ![r].command = Command("GET", KeyLatest, <<>>)]
    /\ UNCHANGED <<store, client, contractCache, nRequests, ALWAYS_PROXY>>

\* runContract, lines 45-50: latest_block_height has been read.
GotHeight(r) ==
    /\ requests[r].pc = "height"
    /\ redisClient = "ready"
    /\ LET latestBlockHeight == Get(redisStr, requests[r].command.key) IN
       requests' = [requests EXCEPT
          ![r].pc = "rev",
          ![r].latestBlockHeight = latestBlockHeight,
          ![r].command = Command("ZREVRANGEBYSCORE", KeyCodeSet(requests[r].accountId),
                                 latestBlockHeight)]
    /\ UNCHANGED <<store, client, redisClient, workerPool, contractCache,
                   nRequests, ALWAYS_PROXY>>

\* runContract, lines 49-71: the code revision has been read.
GotRev(r) ==
    /\ requests[r].pc = "rev"
    /\ redisClient = "ready"
    /\ LET req == requests[r]
           contractBlockHash ==
               First(ZRevRangeByScore(redisZ, req.command.key, Score(req.command.max)))
           cacheKey == ContractCacheKey(req.accountId, contractBlockHash)
           found == [req EXCEPT !.contractBlockHash = contractBlockHash,
                                !.cacheKey = cacheKey, !.command = NoCommand]
       IN  requests' = [requests EXCEPT ![r] =
              IF contractBlockHash = Null
              THEN handleError([req EXCEPT !.command = NoCommand], req.accountId,
                     TypeError(<<"Cannot read properties of undefined (reading 'toString')">>))
              ELSE IF cacheKey \in DOMAIN contractCache
              THEN LET hit == [found EXCEPT !.wasmModule = contractCache[cacheKey]]
                   IN  [hit EXCEPT !.pc = "worker", !.job = Job(hit)]
              ELSE [found EXCEPT !.pc = "blob",
                      !.command = Command("GET", KeyCode(req.accountId, contractBlockHash),
                                          <<>>)]]
    /\ UNCHANGED <<store, client, redisClient, workerPool, contractCache,
                   nRequests, ALWAYS_PROXY>>

\* runContract, lines 61-65: the code blob has been read.
GotBlob(r) ==
    /\ requests[r].pc = "blob"
    /\ redisClient = "ready"
    /\ LET req == requests[r]
           wasmData == Get(redisStr, req.command.key)
       IN  requests' = [requests EXCEPT ![r] =
              IF wasmData = Null
              THEN handleError([req EXCEPT !.command = NoCommand], req.accountId,
                     TypeError(<<"Cannot read properties of null (reading 'length')">>))
              ELSE [req EXCEPT !.pc = "compile", !.wasmData = wasmData,
                               !.command = NoCommand]]
    /\ UNCHANGED <<store, client, redisClient, workerPool, contractCache,
                   nRequests, ALWAYS_PROXY>>

\* runContract, lines 65-71: WebAssembly.compile has settled.
Compiled(r) ==
    /\ requests[r].pc = "compile"
    /\ LET req == requests[r] IN
       /\ contractCache' = SetContractCache(contractCache, req.cacheKey, req.wasmData, r)
       /\ requests' = [requests EXCEPT ![r] =
              IF Compiles(req.wasmData)
              THEN LET made == [req EXCEPT !.wasmModule = Module(req.wasmData, r)]
                   IN  [made EXCEPT !.pc = "worker", !.job = Job(made)]
              ELSE handleError(req, req.accountId, CompileError)]
    /\ UNCHANGED <<store, client, redisClient, workerPool, nRequests, ALWAYS_PROXY>>

\* callViewFunction, lines 159-174: the worker has answered the job.
WorkerDone(r, outcome) ==
    /\ requests[r].pc = "worker"
    /\ LET req == requests[r] IN
       requests' = [requests EXCEPT ![r] =
          IF outcome = NoError
          THEN [req EXCEPT !.pc = "done", !.at = "worker",
                  !.body = [status |-> 200, kind |-> "result",
                            block_height |-> ParseInt(req.job.blockHeight)]]
          ELSE handleError(req, req.accountId, outcome)]
    /\ UNCHANGED <<store, client, redisClient, workerPool, contractCache,
                   nRequests, ALWAYS_PROXY>>

\* viewAccount, lines 177-179: up to the first await.
ViewAccount(r, req) ==
    /\ Issue(r, "getLatestBlockHeight", <<>>, TRUE)
    /\ requests' = [requests EXCEPT ![r] = [req EXCEPT !.pc = "latest", !.reads = @ + 1]]
    /\ UNCHANGED <<redisClient, workerPool, contractCache>>

\* viewAccount's awaited lookup threw: the catch of line 208.
LookupFailed(r) ==
    /\ Return(r)
    /\ requests' = [requests EXCEPT ![r] =
          handleError(requests[r], requests[r].accountId, StoreError)]

\* viewAccount, lines 179-183: the latest height is known.
GotLatest(r) ==
    /\ requests[r].pc = "latest"
    /\ clients[r].pc = "await" /\ Settled(promises, clients[r].p)
    /\ IF promises[clients[r].p].st = "err"
       THEN LookupFailed(r)
       ELSE LET latestBlockHeight == promises[clients[r].p].val IN
            /\ Issue(r, "getLatestAccountBlockHash",
                     <<Str(requests[r].accountId), Str(latestBlockHeight)>>, TRUE)
            /\ requests' = [requests EXCEPT ![r].pc = "hash",
                               ![r].latestBlockHeight = latestBlockHeight]
    /\ UNCHANGED <<redisClient, workerPool, contractCache, nRequests, ALWAYS_PROXY>>

\* viewAccount, lines 183-189: the account revision is known.
GotAccountHash(r) ==
    /\ requests[r].pc = "hash"
    /\ clients[r].pc = "await" /\ Settled(promises, clients[r].p)
    /\ LET req == requests[r]
           blockHash == promises[clients[r].p].val
       IN  IF promises[clients[r].p].st = "err"
           THEN LookupFailed(r)
           ELSE IF blockHash = Null
           THEN /\ Return(r)
                /\ requests' = [requests EXCEPT ![r] =
                      handleError(req, req.accountId,
                                  AccountNotFound(req.accountId, req.latestBlockHeight))]
           ELSE /\ Issue(r, "getAccountData", <<Str(req.accountId), Buf(blockHash)>>, TRUE)
                /\ requests' = [requests EXCEPT ![r].pc = "data"]
    /\ UNCHANGED <<redisClient, workerPool, contractCache, nRequests, ALWAYS_PROXY>>

\* viewAccount, lines 189-210: the account record is known.
GotAccountData(r) ==
    /\ requests[r].pc = "data"
    /\ clients[r].pc = "await" /\ Settled(promises, clients[r].p)
    /\ LET req == requests[r]
           accountData == promises[clients[r].p].val
       IN  IF promises[clients[r].p].st = "err"
           THEN LookupFailed(r)
           ELSE /\ Return(r)
                /\ requests' = [requests EXCEPT ![r] =
                      IF accountData = Null
                      THEN handleError(req, req.accountId,
                               AccountNotFound(req.accountId, req.latestBlockHeight))
                      ELSE IF ~Deserializes(accountData)
                      THEN handleError(req, req.accountId, BorshError)
                      ELSE [req EXCEPT !.pc = "done", !.at = "data",
                              !.body = [status |-> 200, kind |-> "account",
                                        block_height |-> ParseInt(req.latestBlockHeight)]]]
    /\ UNCHANGED <<redisClient, workerPool, contractCache, nRequests, ALWAYS_PROXY>>

\* proxyJson, lines 37-47: the upstream node answers, or fetch rejects and
\* the rejection leaves the handler.
proxyJson(r, answered) ==
    /\ requests[r].pc = "fetch"
    /\ requests' = [requests EXCEPT ![r].pc = "done", ![r].at = "fetch",
          ![r].body = IF answered THEN [status |-> 200, kind |-> "upstream"]
                      ELSE Throw(500, <<"Internal Server Error">>)]
    /\ UNCHANGED <<store, client, redisClient, workerPool, contractCache,
                   nRequests, ALWAYS_PROXY>>

\* query.split('/') of the part of a legacy query after its 'account/' or
\* 'call/' prefix: the pieces between the slashes.
RECURSIVE Split(_, _)
Split(s, piece) ==
    IF s = <<>> THEN <<piece>>
    ELSE IF Head(s) = "/" THEN <<piece>> \o Split(Tail(s), <<>>)
    ELSE Split(Tail(s), Append(piece, Head(s)))

\* What the tests of handleJsonRpc, lines 121-154, make of a body: the kind of
\* the request, the account id taken from it, and the error thrown on the way
\* (by Buffer.from, by query?.startsWith or by bs58.decode).
Dispatch(body) ==
    LET query == body.items[1]
        pieces == Split(Tail(query.v), <<>>)
    IN  IF body.method = "query" /\ body.request_type = "call_function"
        THEN IF body.args_base64.t = "str"
             THEN [kind |-> "call_function", accountId |-> body.account_id, error |-> NoError]
             ELSE [kind |-> "malformed", accountId |-> body.account_id,
                   error |-> TypeError(<<"The first argument must be of type string">>)]
        ELSE IF body.method = "query" /\ body.request_type = "view_account"
        THEN [kind |-> "view_account", accountId |-> body.account_id, error |-> NoError]
        ELSE IF body.method = "query" /\ Len(body.items) > 0
        THEN IF query.t = "undefined"
             THEN [kind |-> "other", accountId |-> Null, error |-> NoError]
             ELSE IF query.t # "str"
             THEN [kind |-> "malformed", accountId |-> Null,
                   error |-> TypeError(<<"query?.startsWith", " is not a function">>)]
             ELSE IF StartsWith(query.v, <<"account/">>)
             THEN [kind |-> "view_account", accountId |-> pieces[1], error |-> NoError]
             ELSE IF StartsWith(query.v, <<"call/">>)
             THEN IF Len(body.items) >= 2 /\ body.items[2].t = "str"
                  THEN [kind |-> "call_function", accountId |-> pieces[1], error |-> NoError]
                  ELSE [kind |-> "malformed", accountId |-> pieces[1],
                        error |-> TypeError(<<"Expected String">>)]
             ELSE [kind |-> "other", accountId |-> Null, error |-> NoError]
        ELSE [kind |-> "other", accountId |-> Null, error |-> NoError]

\* handleJsonRpc, lines 116-155: a request arrives and is handled up to its
\* first await.  An error thrown by handleJsonRpc itself leaves the handler.
handleJsonRpc(r, body) ==
    /\ requests[r].pc = "idle"
    /\ IF r = 1 THEN TRUE ELSE requests[r - 1].pc # "idle"   \* the slots are alike
    /\ nRequests < MaxRequests
    /\ nRequests' = nRequests + 1
    /\ LET d == Dispatch(body)
           req == [IdleRequest EXCEPT !.kind = d.kind, !.accountId = d.accountId,
                                      !.request = body]
       IN  IF ALWAYS_PROXY \/ d.kind = "other"
           THEN /\ requests' = [requests EXCEPT ![r] =
                      [req EXCEPT !.pc = "fetch", !.forwards = 1, !.route = "proxyJson"]]
                /\ UNCHANGED <<store, client, redisClient, workerPool, contractCache>>
           ELSE IF d.kind = "call_function"
           THEN RunContract(r, [req EXCEPT !.route = "callViewFunction"])
           ELSE IF d.kind = "view_account"
           THEN /\ r \in DOMAIN clients
                /\ ViewAccount(r, [req EXCEPT !.route = "viewAccount"])
           ELSE /\ requests' = [requests EXCEPT ![r] =
                      [req EXCEPT !.pc = "done", !.error = d.error, !.route = "throw",
                                  !.body = Throw(500, <<"Internal Server Error">>)]]
                /\ UNCHANGED <<store, client, redisClient, workerPool, contractCache>>
    /\ UNCHANGED ALWAYS_PROXY

\* The bodies of well-formed requests: a call_function query, a view_account
\* query, and a query of another request type.
Request(kind, accountId) ==
    CASE kind = "call_function" ->
            RpcBody("query", "call_function", accountId, Str(<<>>), <<>>)
      [] kind = "view_account" ->
            RpcBody("query", "view_account", accountId, Undefined, <<>>)
      [] OTHER ->
            RpcBody("query", "view_code", accountId, Undefined, <<>>)

\* Bodies of every shape: the well-formed ones, the legacy forms (params is
\* an array), and bodies with parts missing or of another type.
Bodies ==
    {Request(kind, PlainId) : kind \in {"call_function", "view_account", "other"}}
    \cup {RpcBody("query", "", Null, Undefined, <<Str(<<"account/">> \o PlainId)>>),
          RpcBody("query", "", Null, Undefined,
                  <<Str(<<"call/">> \o PlainId \o <<"/", "m">>), Str(<<"1">>)>>),
          RpcBody("query", "", Null, Undefined,
                  <<Str(<<"call/">> \o PlainId \o <<"/", "m">>)>>),
          RpcBody("query", "", Null, Undefined, <<Str(<<"block/">>)>>),
          RpcBody("query", "", Null, Undefined, <<Undefined>>),
          RpcBody("query", "", Null, Undefined, <<Num(1)>>),
          RpcBody("query", "", Null, Undefined, <<>>),
          RpcBody("query", "call_function", PlainId, Undefined, <<>>),
          RpcBody("block", "", Null, Undefined, <<Num(1)>>),
          NoRequest}

\* The response has been sent.
Respond(r) ==
    /\ requests[r].pc = "done"
    /\ requests' = [requests EXCEPT ![r] = IdleRequest]
    /\ UNCHANGED <<store, client, redisClient, workerPool, contractCache,
                   nRequests, ALWAYS_PROXY>>

\* The indexer writes a code revision whose blob is not a module.
IndexerBadCode ==
    /\ \E c \in Contracts : IndexCode(c, <<"bad">>)
    /\ UNCHANGED <<client, front>>

InitFront ==
    /\ redisClient = "none"
    /\ workerPool = NoPool
    /\ contractCache = << >>
    /\ requests = [r \in 1..NRequests |-> IdleRequest]
    /\ nRequests = 0
    /\ ALWAYS_PROXY \in BOOLEAN

vars == <<redisStr, redisZ, redisCache, promises, nQueries, nFailed, nEvicted, clients,
          redisClient, workerPool, contractCache, requests, nRequests, ALWAYS_PROXY>>

(* --------------------------- specifications --------------------------- *)
\* The indexer, as the programs see it: it writes the revisions of the next
\* block, then moves latest_block_height to it.
IndexerCode ==
    /\ \E c \in Contracts : IndexCode(c, <<"good">>)
    /\ UNCHANGED <<client, front>>

IndexerAccount ==
    /\ \E a \in Contracts : IndexAccount(a, <<"acct">>)
    /\ UNCHANGED <<client, front>>

IndexerData ==
    /\ \E c \in Contracts, k \in NewKeys :
          IndexData(CompKey(c, k), <<"v">> \o BlockHash(NextBlock))
    /\ UNCHANGED <<client, front>>

IndexerHeight ==
    /\ IndexHeight
    /\ UNCHANGED <<client, front>>

InitStore ==
    /\ redisStr = (KeyLatest :> ToDecimal(InitHeight))
                  @@ (KeyCode(<<"a">>, BlockHash(InitHeight - 1)) :> <<"good">>)
                  @@ (KeyAccountData(<<"a">>, BlockHash(InitHeight - 1)) :> <<"acct">>)
                  @@ (KeyDataValue(CompKey(<<"a">>, <<"k">>), BlockHash(InitHeight - 1)) :> <<"v">>)
                  @@ (KeyCode(<<"b">>, BlockHash(InitHeight - 1)) :> <<"bad">>)
    /\ redisZ = (KeyCodeSet(<<"a">>) :> {[member |-> BlockHash(InitHeight - 1), score |-> InitHeight - 1]})
                @@ (KeyAccountSet(<<"a">>) :> {[member |-> BlockHash(InitHeight - 1), score |-> InitHeight - 1]})
                @@ (KeyDataSet(CompKey(<<"a">>, <<"k">>)) :> {[member |-> BlockHash(InitHeight - 1), score |-> InitHeight - 1]})
                @@ (KeyCodeSet(<<"b">>) :> {[member |-> BlockHash(InitHeight - 1), score |-> InitHeight - 1]})
                @@ (KeyAccountSet(<<"b">>) :> {[member |-> BlockHash(InitHeight - 1), score |-> InitHeight - 1]})

\* The storage entries of the scanned store: <<contract id, storage key>>.
ScanEntries == {<<PlainId, <<"k">>>>, <<WideId, <<"k">>>>, <<<<"a", "b">>, <<"k">>>>}

\* A store with storage entries of several contracts, written at the block
\* before the latest.
InitScanStore ==
    /\ redisStr = [k \in {KeyLatest}
                        \cup {KeyDataValue(CompKey(e[1], e[2]), BlockHash(InitHeight - 1)) :
                                 e \in ScanEntries} |->
                      IF k = KeyLatest THEN ToDecimal(InitHeight) ELSE <<"v">>]
    /\ redisZ = [k \in {KeyDataSet(CompKey(e[1], e[2])) : e \in ScanEntries} |->
                    {[member |-> BlockHash(InitHeight - 1), score |-> InitHeight - 1]}]

InitClient ==
    /\ redisCache = << >>
    /\ promises = << >>
    /\ nQueries = 0
    /\ nEvicted = 0
    /\ clients = [c \in 1..NClients |->
          [pc |-> "idle", p |-> 0, op |-> Null, args |-> <<>>, H |-> Null]]

ClientNext ==
    \/ \E c \in DOMAIN clients : Pin(c) /\ UNCHANGED front
    \/ \E c \in DOMAIN clients : Lookup(c) /\ UNCHANGED front
    \/ \E c \in DOMAIN clients : Return(c) /\ UNCHANGED front
    \/ \E p \in DOMAIN promises, f \in BOOLEAN : Reply(p, f) /\ UNCHANGED front
    \/ \E p \in DOMAIN promises, f \in BOOLEAN : ScanReply(p, f) /\ UNCHANGED front
    \/ \E p \in DOMAIN promises : ScanValues(p) /\ UNCHANGED front
    \/ Tick /\ UNCHANGED front
    \/ \E k \in DOMAIN redisCache : Evict(k) /\ UNCHANGED front
    \/ IndexerCode
    \/ IndexerData
    \/ IndexerHeight

\* View calls against a store that answers every query.
StoreInit == InitStore /\ InitClient /\ InitFront /\ nFailed = MaxFailures /\ ~ALWAYS_PROXY

SpecStore == StoreInit /\ [][ClientNext]_vars

ApiNext ==
    \/ \E c \in DOMAIN clients : Direct(c) /\ UNCHANGED front
    \/ \E c \in DOMAIN clients : Return(c) /\ UNCHANGED front
    \/ \E p \in DOMAIN promises, f \in BOOLEAN : Reply(p, f) /\ UNCHANGED front
    \/ \E k \in DOMAIN redisCache : Evict(k) /\ UNCHANGED front
    \/ IndexerCode
    \/ IndexerAccount
    \/ IndexerData
    \/ IndexerHeight

\* Revision lookups against a store whose queries can fail.
ApiInit == InitStore /\ InitClient /\ InitFront /\ nFailed = 0 /\ ~ALWAYS_PROXY

SpecApi == ApiInit /\ [][ApiNext]_vars

ScanNext ==
    \/ \E c \in DOMAIN clients : ScanCall(c) /\ UNCHANGED front
    \/ \E c \in DOMAIN clients : Return(c) /\ UNCHANGED front
    \/ \E p \in DOMAIN promises, f \in BOOLEAN : ScanReply(p, f) /\ UNCHANGED front
    \/ \E p \in DOMAIN promises : ScanValues(p) /\ UNCHANGED front
    \/ IndexerData
    \/ IndexerHeight

\* Scans for contract ids of every shape against a store that answers.
ScanInit ==
    InitScanStore /\ InitClient /\ InitFront /\ nFailed = MaxFailures /\ ~ALWAYS_PROXY

SpecScan == ScanInit /\ [][ScanNext]_vars

FlightNext ==
    \/ \E c \in DOMAIN clients : FlightCall(c) /\ UNCHANGED front
    \/ \E c \in DOMAIN clients : Return(c) /\ UNCHANGED front
    \/ \E p \in DOMAIN promises, f \in BOOLEAN : Reply(p, f) /\ UNCHANGED front
    \/ Tick /\ UNCHANGED front
    \/ \E k \in DOMAIN redisCache : Evict(k) /\ UNCHANGED front
    \/ IndexerHeight

\* Several callers at a time against a store whose queries can fail.
FlightInit ==
    /\ InitStore /\ InitFront /\ ~ALWAYS_PROXY
    /\ redisCache = << >>
    /\ promises = << >>
    /\ nQueries = 0
    /\ nFailed = 0
    /\ nEvicted = 0
    /\ clients = [c \in 1..NCallers |->
          [pc |-> "idle", p |-> 0, op |-> Null, args |-> <<>>, H |-> Null]]

SpecFlight == FlightInit /\ [][FlightNext]_vars

\* The JSON-RPC front: requests, the store client under viewAccount, the
\* indexer.
Next ==
    \/ \E r \in DOMAIN requests, kind \in RequestKinds, accountId \in AccountIds :
          handleJsonRpc(r, Request(kind, accountId))
    \/ \E r \in DOMAIN requests : Connected(r)
    \/ \E r \in DOMAIN requests : GotHeight(r)
    \/ \E r \in DOMAIN requests : GotRev(r)
    \/ \E r \in DOMAIN requests : GotBlob(r)
    \/ \E r \in DOMAIN requests : Compiled(r)
    \/ \E r \in DOMAIN requests, outcome \in WorkerOutcomes : WorkerDone(r, outcome)
    \/ \E r \in DOMAIN clients : GotLatest(r)
    \/ \E r \in DOMAIN clients : GotAccountHash(r)
    \/ \E r \in DOMAIN clients : GotAccountData(r)
    \/ \E r \in DOMAIN requests, answered \in BOOLEAN : proxyJson(r, answered)
    \/ \E r \in DOMAIN requests : Respond(r)
    \/ \E p \in DOMAIN promises, f \in BOOLEAN : Reply(p, f) /\ UNCHANGED front
    \/ IndexerCode
    \/ IndexerBadCode
    \/ IndexerAccount
    \/ IndexerHeight

Init == InitStore /\ InitClient /\ InitFront /\ nFailed = 0

Spec == Init /\ [][Next]_vars

\* The JSON-RPC front under requests of every shape.
DispatchNext ==
    \/ \E r \in DOMAIN requests, body \in Bodies : handleJsonRpc(r, body)
    \/ \E r \in DOMAIN requests : Connected(r)
    \/ \E r \in DOMAIN requests : GotHeight(r)
    \/ \E r \in DOMAIN requests : GotRev(r)
    \/ \E r \in DOMAIN requests : GotBlob(r)
    \/ \E r \in DOMAIN requests : Compiled(r)
    \/ \E r \in DOMAIN requests, outcome \in WorkerOutcomes : WorkerDone(r, outcome)
    \/ \E r \in DOMAIN clients : GotLatest(r)
    \/ \E r \in DOMAIN clients : GotAccountHash(r)
    \/ \E r \in DOMAIN clients : GotAccountData(r)
    \/ \E r \in DOMAIN requests, answered \in BOOLEAN : proxyJson(r, answered)
    \/ \E r \in DOMAIN requests : Respond(r)
    \/ \E p \in DOMAIN promises, f \in BOOLEAN : Reply(p, f) /\ UNCHANGED front

DispatchInit == InitStore /\ InitClient /\ InitFront /\ nFailed = 0

SpecDispatch == DispatchInit /\ [][DispatchNext]_vars

(* ------------------------------ claims -------------------------------- *)
\* The store frozen at height h: the revisions written up to block h.
FrozenZ(h) ==
    [k \in {x \in DOMAIN redisZ : \E m \in redisZ[x] : m.score <= Score(h)} |->
        {m \in redisZ[k] : m.score <= Score(h)}]

\* scanDataKeys run against one fixed store.
ScanFixed(str, z, args) ==
    LET keys == Scan(str, z, args[4].v, MatchPattern(args[1].v, args[3].v), args[5].v)[2]
    IN  [i \in 1..Len(keys) |->
            LET compKey == Slice(keys[i], 1)
                r == getLatestDataBlockHash(str, z, <<Buf(compKey), args[2]>>)
            IN  <<Slice(compKey, Len(args[1].v) + 1),
                  IF r = Null THEN Null ELSE getData(str, z, <<Buf(compKey), Buf(r)>>)>>]

\* The value the storage key of a scan entry has in the store frozen at h.
FrozenValue(args, e) ==
    LET compKey == CompKey(args[1].v, e[1])
        r == getLatestDataBlockHash(redisStr, FrozenZ(args[2].v), <<Buf(compKey), args[2]>>)
    IN  IF r = Null THEN Null ELSE getData(redisStr, redisZ, <<Buf(compKey), Buf(r)>>)

\* withRedis hands a result to caller c in this step.
Returns(c) == clients[c].pc = "await" /\ clients'[c].pc = "idle"

Result(c) == promises[clients[c].p]

\* A lookup of a view call (at its pinned height) returns a value in this step.
ViewResult(c) ==
    /\ Returns(c)
    /\ Result(c).st = "ok"
    /\ clients[c].op # "getLatestBlockHeight"

\* C2 as stated: every result a call gets, the entries of a scan included, is
\* what the same lookup returns against the store frozen at the call's pinned
\* height.
C2_Original ==
    [][\A c \in DOMAIN clients :
        ViewResult(c)
        => IF clients[c].op = "scanDataKeys"
           THEN Result(c).val.data
                = ScanFixed(redisStr, FrozenZ(clients[c].H), clients[c].args)
           ELSE Result(c).val
                = Fn(clients[c].op, redisStr, FrozenZ(clients[c].H), clients[c].args)]_vars

\* C2 as amended: every revision and blob a call gets is what the same lookup
\* returns against the store frozen at the call's pinned height H, and every
\* entry of a scan carries the value its key has in that frozen store (null
\* when the key has no revision <= H); the scan's key list is read from the
\* live store, so it may hold keys the frozen store does not have.
C2_SnapshotIsolation ==
    [][\A c \in DOMAIN clients :
        ViewResult(c)
        => IF clients[c].op = "scanDataKeys"
           THEN \A i \in 1..Len(Result(c).val.data) :
                   Result(c).val.data[i][2]
                   = FrozenValue(clients[c].args, Result(c).val.data[i])
           ELSE Result(c).val
                = Fn(clients[c].op, redisStr, FrozenZ(clients[c].H), clients[c].args)]_vars

\* C2's case: a call pinned below the store's latest height is handed a scan
\* that holds a key written after its height next to a key written before.
C2_Witness ==
    \E c \in DOMAIN clients :
        /\ clients[c].pc = "await" /\ clients[c].H # Null
        /\ Score(clients[c].H) < Latest
        /\ Result(c).st = "ok" /\ clients[c].op = "scanDataKeys"
        /\ \E i \in 1..Len(Result(c).val.data) : Result(c).val.data[i][2] = Null
        /\ \E j \in 1..Len(Result(c).val.data) : Result(c).val.data[j][2] # Null

RevOps == {"getLatestContractBlockHash", "getLatestAccountBlockHash", "getLatestDataBlockHash"}

\* Caller c holds the answer of a revision lookup (withRedis is about to return it).
RevAnswer(c) ==
    /\ clients[c].pc = "await"
    /\ clients[c].op \in RevOps
    /\ Result(c).st = "ok"

C6_NoReplay ==
    [][\A c \in DOMAIN clients :
        (clients[c].pc = "idle" /\ clients'[c].pc = "await")
        => promises'[clients'[c].p].st # "err"]_vars

\* C1 as stated: calls that miss the module cache for the same (contract,
\* code revision) compile its blob at most once: no two of them are
\* compiling it at the same time.
C1_SingleCompilation ==
    \A r1 \in DOMAIN requests, r2 \in DOMAIN requests :
        (r1 # r2 /\ requests[r1].pc = "compile" /\ requests[r2].pc = "compile")
        => requests[r1].cacheKey # requests[r2].cacheKey

\* The height of a request never changes once it has been read.
HeightKept ==
    \A r \in DOMAIN requests :
        (requests[r].latestBlockHeight # Null /\ requests'[r].pc # "idle")
        => requests'[r].latestBlockHeight = requests[r].latestBlockHeight

\* One height per request: read once, used by the revision lookup, handed to
\* the worker and reported by viewAccount.
HeightUsed ==
    \A r \in DOMAIN requests :
        LET q == requests[r] IN
        /\ q.reads <= 1
        /\ q.latestBlockHeight # Null => q.reads = 1
        /\ q.command.name = "ZREVRANGEBYSCORE" => q.command.max = q.latestBlockHeight
        /\ q.job # NoJob => q.job.blockHeight = q.latestBlockHeight
        /\ (q.kind = "view_account" /\ q.pc = "hash")
           => clients[r].args = <<Str(q.accountId), Str(q.latestBlockHeight)>>
        /\ q.body.kind = "account"
           => q.body.block_height = ParseInt(q.latestBlockHeight)

\* C3: runContract and viewAccount read latest_block_height exactly once, and
\* that value is the height of the revision lookup, the height handed to the
\* worker job and the block_height of viewAccount's response; no other height
\* is read or put in its place while the call runs.
C3_OnePinnedHeight == []HeightUsed /\ [][HeightKept]_vars

\* C3's case: the store has moved on while a viewAccount answers with the
\* height it read and a runContract hands the height it read to a worker.
C3_Witness ==
    \E r1 \in DOMAIN requests, r2 \in DOMAIN requests :
        /\ requests[r1].body.kind = "account"
        /\ requests[r1].body.block_height < Latest
        /\ requests[r2].job # NoJob
        /\ ParseInt(requests[r2].job.blockHeight) < Latest

\* C5 as stated: a view call on a contract with no code revision <= H fails
\* with codeNotFound and is answered CodeDoesNotExist; nothing is fetched,
\* compiled, cached or handed to a worker.
C5_CodeNotFound ==
    \A r \in DOMAIN requests :
        LET q == requests[r] IN
        (q.kind = "call_function" /\ q.pc = "done" /\ q.at = "rev")
        => /\ q.error.code = "codeNotFound"
           /\ q.body = viewCallError(CodeDoesNotExist(q.accountId))
           /\ q.wasmData = Null /\ q.wasmModule = NoModule /\ q.job = NoJob

\* A compilation that fails leaves the cache as it was and ends the call with
\* an error; a call whose revision has a blob that does not compile goes on
\* to fetch the blob.
CompileFailure ==
    \A r \in DOMAIN requests :
        /\ (requests[r].pc = "compile" /\ requests'[r].pc # "compile"
            /\ ~Compiles(requests[r].wasmData))
           => /\ contractCache' = contractCache
              /\ requests'[r].pc = "done"
              /\ requests'[r].error = CompileError
              /\ requests'[r].body = Throw(400, toString(CompileError))
        /\ (requests[r].pc = "rev" /\ requests'[r].pc # "rev"
            /\ requests'[r].contractBlockHash # Null
            /\ ~Compiles(Get(redisStr, KeyCode(requests[r].accountId,
                                                requests'[r].contractBlockHash))))
           => requests'[r].pc = "blob"

\* C7: a compilation that fails is surfaced to the caller, leaves the module
\* cache exactly as it was, and the next call for the same (C, R) fetches and
\* compiles the blob again.
C7_CompileFailureNotCached ==
    /\ [](\A k \in DOMAIN contractCache : Compiles(contractCache[k].blob))
    /\ [][CompileFailure]_vars

\* C7's case: one call has ended with a compilation error and another call
\* for the same (C, R) is compiling the blob, the cache having no entry.
C7_Witness ==
    \E r1 \in DOMAIN requests, r2 \in DOMAIN requests :
        /\ requests[r1].pc = "done" /\ requests[r1].error = CompileError
        /\ requests[r2].pc = "compile"
        /\ requests[r2].cacheKey = requests[r1].cacheKey
        /\ requests[r2].cacheKey \notin DOMAIN contractCache

\* C8 as stated: an error with code panic or abort, whatever its message, is
\* answered with a GuestPanic view-call error that carries its message.
C8_GuestPanic ==
    \A r \in DOMAIN requests :
        LET q == requests[r] IN
        (q.pc = "done" /\ q.error.code \in {"panic", "abort"})
        => q.body = viewCallError(GuestPanic(q.error.message))

C10_AccountNotFound ==
    \A r \in DOMAIN requests :
        LET q == requests[r] IN
        (q.kind = "view_account" /\ q.pc = "done" /\ q.error.code = "accountNotFound")
        => /\ q.body = legacyError(AccountDoesNotExist(q.accountId))
           /\ q.forwards = 0
           /\ q.at \in {"hash", "data"}

HeightKey == CacheKey("getLatestBlockHeight", <<>>)

\* Only the entry of getLatestBlockHeight has a maxAge (BLOCK_INDEX_CACHE_TIME);
\* the entries of the other operations have none and do not age.
OnlyHeightExpires ==
    \A k \in DOMAIN redisCache :
        IF promises[redisCache[k].p].op = "getLatestBlockHeight"
        THEN redisCache[k].maxAge = BLOCK_INDEX_CACHE_TIME
        ELSE redisCache[k].maxAge = 0 /\ redisCache[k].age = 0 /\ ~Stale(redisCache[k])

\* A height the store client holds was read from a store that has not gone back.
HeightNotAhead ==
    \A p \in DOMAIN promises :
        (promises[p].op = "getLatestBlockHeight" /\ promises[p].st = "ok")
        => ParseInt(promises[p].val) <= Latest

\* Caller c calls getLatestBlockHeight in this step.
CallsHeight(c) ==
    /\ clients[c].pc = "idle" /\ clients'[c].pc = "await"
    /\ clients'[c].op = "getLatestBlockHeight"

\* The query that serves a call started at most BLOCK_INDEX_CACHE_TIME before
\* it, and a call later than that after the last query starts a new one.
HeightFresh ==
    \A c \in DOMAIN clients :
        CallsHeight(c)
        => /\ HeightKey \in DOMAIN redisCache'
           /\ redisCache'[HeightKey].p = clients'[c].p
           /\ redisCache'[HeightKey].age <= BLOCK_INDEX_CACHE_TIME
           /\ (HeightKey \in DOMAIN redisCache
               /\ redisCache[HeightKey].age > BLOCK_INDEX_CACHE_TIME)
              => /\ nQueries' = nQueries + 1
                 /\ clients'[c].p # redisCache[HeightKey].p
                 /\ promises'[clients'[c].p].st = "pending"

\* C11: getLatestBlockHeight is the only operation whose memo entry expires;
\* the value a call gets was read by a query started at most 500 ms before
\* the call, so it is never above the store's latest_block_height, and a call
\* made more than 500 ms after the last query starts a new query; the entries
\* of the other operations never expire by time.
C11_BoundedStaleness ==
    /\ []OnlyHeightExpires
    /\ []HeightNotAhead
    /\ [][HeightFresh]_vars

\* C11's case: a call is served, from an entry that has aged but not expired,
\* a height the store has left behind; more than one query has been started
\* and the cache also holds an entry of an operation that does not expire.
C11_Witness ==
    \E c \in DOMAIN clients :
        /\ clients[c].pc = "await" /\ clients[c].op = "getLatestBlockHeight"
        /\ Result(c).st = "ok" /\ ParseInt(Result(c).val) < Latest
        /\ HeightKey \in DOMAIN redisCache
        /\ redisCache[HeightKey].p = clients[c].p
        /\ redisCache[HeightKey].age > 0 /\ ~Stale(redisCache[HeightKey])
        /\ nQueries >= 2
        /\ \E k \in DOMAIN redisCache : redisCache[k].maxAge = 0

\* Caller c holds the result of a scan (withRedis is about to return it).
ScanAnswer(c) ==
    /\ clients[c].pc = "await"
    /\ clients[c].op = "scanDataKeys"
    /\ Result(c).st = "ok"

\* The scanned key with the leading data: and then the leading C: removed.
StorageKeyOf(key, contractId) == Slice(Slice(key, 1), Len(Utf8(contractId)) + 1)

\* data_blob at the greatest revision <= h of a composite key, null without one.
ValueAt(compKey, h) ==
    LET r == First(ZRevRangeByScore(redisZ, KeyDataSet(compKey), Score(h)))
    IN  IF r = Null THEN Null ELSE Get(redisStr, KeyDataValue(compKey, r))

\* C12 as stated: the data of a scan_data_keys result has one pair per key the
\* store scan returned, in the same order; each pair's storage key is the
\* scanned key without the leading data: and the leading C: (the bytes of C
\* and one colon), its value is the blob at the greatest revision <= H of the
\* composite key, or null when there is none; the iterator is the next
\* cursor the store answered the scan with.
C12_ScanShape ==
    \A c \in DOMAIN clients :
        ScanAnswer(c)
        => LET res == Result(c)
               contractId == res.args[1].v
           IN  /\ Len(res.val.data) = Len(res.keys)
               /\ \A i \in 1..Len(res.keys) :
                     /\ StartsWith(res.keys[i], <<"data:">> \o Utf8(contractId) \o <<":">>)
                     /\ res.val.data[i][1] = StorageKeyOf(res.keys[i], contractId)
                     /\ res.val.data[i][2] = ValueAt(Slice(res.keys[i], 1), res.args[2].v)
               /\ res.val.iterator = res.next

\* The code revisions the store holds for contract c.
CodeRevisions(c) ==
    IF KeyCodeSet(c) \in DOMAIN redisZ THEN {m.member : m \in redisZ[KeyCodeSet(c)]} ELSE {}

\* Every entry holds the module compiled from the blob of its (C, R).
EntriesMatchBlobs ==
    \A c \in AccountIds : \A rev \in CodeRevisions(c) :
        ContractCacheKey(c, rev) \in DOMAIN contractCache
        => contractCache[ContractCacheKey(c, rev)].blob = Get(redisStr, KeyCode(c, rev))

\* An entry stays, and stays the same module object.
EntriesKept ==
    \A k \in DOMAIN contractCache :
        k \in DOMAIN contractCache' /\ contractCache'[k] = contractCache[k]

\* C13 as stated: every entry of the module cache under the key of (C, R) is
\* the module compiled from the blob stored at code:C:R, and an entry, once it
\* exists, is never removed and never replaced by another module object,
\* whatever the interleaving of concurrent view calls.
C13_StableEntries ==
    /\ []EntriesMatchBlobs
    /\ [][EntriesKept]_vars

\* A call that has passed the pool initialisation finds the one pool.
OnePool ==
    /\ workerPool \in {NoPool, WorkerPool(10, 1)}
    /\ \A r \in DOMAIN requests :
          requests[r].pc \in {"height", "rev", "blob", "compile", "worker"}
          => workerPool = WorkerPool(10, 1)

\* The pool, once made, is the pool for good.
PoolKept == workerPool # NoPool => workerPool' = workerPool

\* C14: however many first view calls run at a time, exactly one worker pool
\* is made, of capacity 10, by the first call that reaches the pool
\* initialisation; every later call hands its job to that pool and no second
\* pool is made.
C14_SingleWorkerPool ==
    /\ []OnePool
    /\ [][PoolKept]_vars

\* C14's case: while the first call still waits for its connection, a second
\* call has made the pool; later both have handed their job to it.
C14_Witness ==
    /\ workerPool = WorkerPool(10, 1)
    /\ \/ /\ redisClient = "connecting"
          /\ \E r1 \in DOMAIN requests, r2 \in DOMAIN requests :
                requests[r1].pc = "connect" /\ requests[r2].pc = "height"
       \/ \E r1 \in DOMAIN requests, r2 \in DOMAIN requests :
             /\ r1 # r2
             /\ requests[r1].pc = "worker" /\ requests[r2].pc = "worker"

\* C15 as stated: no view call has a store query (latest height, code
\* revision, code blob) out before the connection of the shared client is up,
\* calls that start while another call's connection is in progress included,
\* and the connection is attempted once.
C15_ConnectBeforeUse ==
    /\ [](\A r \in DOMAIN requests :
            requests[r].command # NoCommand => redisClient = "ready")
    /\ [][redisClient # "none" => redisClient' # "none"]_vars
    /\ [][redisClient' = "connecting" => redisClient \in {"none", "connecting"}]_vars

\* The memo holds an entry for the lookup, neither expired nor evicted.
EntryPresent(op, args) ==
    /\ CacheKey(op, args) \in DOMAIN redisCache
    /\ ~(redisCache[CacheKey(op, args)].maxAge > 0
         /\ redisCache[CacheKey(op, args)].age > redisCache[CacheKey(op, args)].maxAge)

\* A call that finds the entry starts no query and awaits the entry's promise.
JoinsFlight ==
    \A c \in DOMAIN clients :
        (clients[c].pc = "idle" /\ clients'[c].pc = "await"
         /\ EntryPresent(clients'[c].op, clients'[c].args))
        => /\ nQueries' = nQueries
           /\ clients'[c].p = redisCache[CacheKey(clients'[c].op, clients'[c].args)].p
           /\ redisCache' = redisCache

\* A query has one outcome: a settled promise stays as it is.
OneOutcome ==
    \A p \in DOMAIN promises :
        (Settled(promises, p) /\ p \in DOMAIN promises') => promises'[p] = promises[p]

\* C16: of any number of overlapping calls of one memoized operation with the
\* same arguments, only the one that finds no entry (none yet, expired or
\* evicted) starts a store query; every call that finds the entry awaits that
\* query and receives its outcome, a failure included.
C16_SingleFlight ==
    /\ [][JoinsFlight]_vars
    /\ [][OneOutcome]_vars

\* C16's case: two callers await the one query of a lookup, still in flight,
\* and no other query has been started.
C16_Witness ==
    \E c1 \in DOMAIN clients, c2 \in DOMAIN clients :
        /\ c1 # c2
        /\ clients[c1].pc = "await" /\ clients[c2].pc = "await"
        /\ clients[c1].p = clients[c2].p
        /\ clients[c1].op = "getLatestContractBlockHash"
        /\ promises[clients[c1].p].st = "pending"
        /\ nQueries = 1

\* C17 as stated: a lookup is served from a memo entry only if the entry was
\* made for the same operation and the same argument list, whatever strings
\* the contract ids, composite keys and patterns are (the "$$" separator
\* included): what a caller awaits is the query of its own lookup.
C17_NoCollision ==
    \A c \in DOMAIN clients :
        clients[c].pc = "await"
        => /\ promises[clients[c].p].op = clients[c].op
           /\ promises[clients[c].p].args = clients[c].args

\* The storage entries the store can hold, each under its contract.
AllEntries == ScanEntries \cup (Contracts \X NewKeys)

\* C18 as stated: every pair a scan for contract C returns comes from a
\* storage entry of C, whatever C and the guest's pattern are; no key of a
\* contract with another id is returned as a storage key of C.
C18_ScanInsideContract ==
    \A c \in DOMAIN clients :
        (ScanAnswer(c) /\ Result(c).op = clients[c].op /\ Result(c).args = clients[c].args)
        => \A i \in 1..Len(Result(c).keys) :
              \E e \in AllEntries :
                 /\ e[1] = clients[c].args[1].v
                 /\ Result(c).keys[i] = KeyDataSet(CompKey(e[1], e[2]))

\* A body the front handles itself: a call_function query, a view_account
\* query, or a legacy query whose first item starts with account/ or call/.
Recognized(body) ==
    /\ body.method = "query"
    /\ \/ body.request_type \in {"call_function", "view_account"}
       \/ /\ Len(body.items) > 0
          /\ body.items[1].t = "str"
          /\ \/ StartsWith(body.items[1].v, <<"account/">>)
             \/ StartsWith(body.items[1].v, <<"call/">>)

\* C19 as stated: every request handleJsonRpc is given, whatever the shape of
\* its body and params, is handled by exactly one of the local view call, the
\* local account view and the upstream proxy; with the always-proxy switch on
\* every request is proxied and nothing is executed or looked up locally; with
\* it off, every request that is not a call_function query, a view_account
\* query or a legacy account/ or call/ query is proxied.
C19_Dispatch ==
    /\ \A r \in DOMAIN requests :
          requests[r].pc # "idle"
          => /\ requests[r].route \in {"callViewFunction", "viewAccount", "proxyJson"}
             /\ ALWAYS_PROXY => requests[r].route = "proxyJson"
             /\ (~ALWAYS_PROXY /\ ~Recognized(requests[r].request))
                => requests[r].route = "proxyJson"
    /\ ALWAYS_PROXY
       => /\ redisClient = "none" /\ workerPool = NoPool /\ contractCache = << >>
          /\ nQueries = 0 /\ redisCache = << >>

====
